---------------------------- MODULE Spec2Model ----------------------------
(***************************************************************************)
(* Solar Farm Analytics: the loader (load_data), the scorer                *)
(* (create_solar_score) of src/app/utils.py, the section renderers of      *)
(* src/app/components.py and the pipeline main() of src/app/main.py.       *)
(*                                                                         *)
(* Numbers.  A Python/NumPy float is modelled as an exact fraction         *)
(* [n |-> numerator, d |-> denominator] in lowest terms with d > 0; the    *)
(* IEEE special values are d = 0: n = 1 is +inf, n = -1 is -inf and n = 0  *)
(* is NaN.  The only inexact operation the scorer uses, the square root    *)
(* inside Series.std(), is rounded down to a multiple of 1/SqrtPrecision.  *)
(***************************************************************************)
EXTENDS Integers, Sequences, FiniteSets, TLC

\* ------------------------------------------------------------------ bounds
MaxRows == 3
SqrtPrecision == 10

\* Cell values the uploaded tables draw from.
GHIVals == {-100, 0, 100, 500, 600}
RHVals == {85, 90}
TambVals == {25}

\* ------------------------------------------------------------- float model
Abs(x) == IF x < 0 THEN -x ELSE x

RECURSIVE Gcd(_, _)
Gcd(a, b) == IF b = 0 THEN a ELSE Gcd(b, a % b)

Sign(x) == IF x > 0 THEN 1 ELSE IF x < 0 THEN -1 ELSE 0

\* The float n/d, in lowest terms.
Frac(num, den) ==
    IF den = 0 THEN [n |-> Sign(num), d |-> 0]
    ELSE LET g == Gcd(Abs(num), Abs(den))
             s == IF den < 0 THEN -1 ELSE 1
         IN  [n |-> s * (num \div g), d |-> s * (den \div g)]

Num(i) == [n |-> i, d |-> 1]
NaN == [n |-> 0, d |-> 0]
IsNaN(a) == a.d = 0 /\ a.n = 0
IsInf(a) == a.d = 0 /\ a.n # 0

FAdd(a, b) ==
    IF IsNaN(a) \/ IsNaN(b) THEN NaN
    ELSE IF IsInf(a) /\ IsInf(b) THEN (IF a.n = b.n THEN a ELSE NaN)
    ELSE IF IsInf(a) THEN a
    ELSE IF IsInf(b) THEN b
    ELSE LET g == Gcd(a.d, b.d)
         IN  Frac(a.n * (b.d \div g) + b.n * (a.d \div g), (a.d \div g) * b.d)

FNeg(a) == [n |-> -a.n, d |-> a.d]

FSub(a, b) == FAdd(a, FNeg(b))

FMul(a, b) ==
    IF IsNaN(a) \/ IsNaN(b) THEN NaN
    ELSE IF IsInf(a) \/ IsInf(b)
         THEN [n |-> Sign(a.n) * Sign(b.n), d |-> 0]
    ELSE LET g1 == Gcd(Abs(a.n), b.d)
             g2 == Gcd(Abs(b.n), a.d)
         IN  Frac((a.n \div g1) * (b.n \div g2), (a.d \div g2) * (b.d \div g1))

\* NumPy float64 division: x / 0.0 is +-inf (a warning, no exception), 0/0 is NaN.
FDiv(a, b) ==
    IF IsNaN(a) \/ IsNaN(b) THEN NaN
    ELSE IF IsInf(a) /\ IsInf(b) THEN NaN
    ELSE IF IsInf(a) THEN [n |-> a.n * (IF b.n < 0 THEN -1 ELSE 1), d |-> 0]
    ELSE IF IsInf(b) THEN Num(0)
    ELSE IF b.n = 0 THEN [n |-> Sign(a.n), d |-> 0]
    ELSE FMul(a, Frac(b.d, b.n))

\* a > b; every comparison with NaN is False.
FGt(a, b) ==
    IF IsNaN(a) \/ IsNaN(b) THEN FALSE
    ELSE IF IsInf(a) /\ IsInf(b) THEN a.n > b.n
    ELSE a.n * b.d > b.n * a.d

FLe(a, b) == ~IsNaN(a) /\ ~IsNaN(b) /\ ~FGt(a, b)

\* Python's max(a, b): a unless b > a.
PyMax(a, b) == IF FGt(b, a) THEN b ELSE a

\* Python's sum(values): 0 + v1 + v2 + ..., left to right.
RECURSIVE PySumFrom(_, _)
PySumFrom(acc, vals) ==
    IF vals = <<>> THEN acc ELSE PySumFrom(FAdd(acc, Head(vals)), Tail(vals))

PySum(vals) == PySumFrom(Num(0), vals)

\* floor(sqrt(x)) for an integer x >= 0, by bisection on [lo, hi].
RECURSIVE ISqrtIn(_, _, _)
ISqrtIn(x, lo, hi) ==
    IF lo >= hi THEN lo
    ELSE LET mid == (lo + hi + 1) \div 2
         IN  IF mid * mid <= x THEN ISqrtIn(x, mid, hi) ELSE ISqrtIn(x, lo, mid - 1)

ISqrt(x) == ISqrtIn(x, 0, IF x < 46340 THEN x ELSE 46340)

\* sqrt of a finite float >= 0, rounded down to a multiple of 1/SqrtPrecision.
FSqrt(a) ==
    Frac(ISqrt((a.n * SqrtPrecision * SqrtPrecision) \div a.d), SqrtPrecision)


\* ------------------------------------------------------- pandas primitives
\* A DataFrame: its regular columns in order, one sequence of cells per column,
\* and its index.  None is Python's None.
None == [kind |-> "None"]

RangeIndex(n) == [kind |-> "RangeIndex", name |-> "", values |-> [i \in 1..n |-> i - 1]]

DataFrame(columns, data, index) ==
    [kind |-> "DataFrame", columns |-> columns, data |-> data, index |-> index]

\* col in df.columns
HasColumn(df, col) == \E i \in 1..Len(df.columns) : df.columns[i] = col

\* len(df)
NRows(df) == Len(df.index.values)

RECURSIVE SeqSum(_)
SeqSum(s) == IF s = <<>> THEN 0 ELSE Head(s) + SeqSum(Tail(s))

SeqSquares(s) == [i \in 1..Len(s) |-> s[i] * s[i]]

\* Series.mean(): sum / count.
SeriesMean(s) == IF Len(s) = 0 THEN NaN ELSE Frac(SeqSum(s), Len(s))

\* Series.std(), ddof = 1: NaN below two rows, else sqrt(sum((x - mean)^2) / (n - 1)).
SeriesStd(s) ==
    LET n == Len(s)
    IN  IF n < 2 THEN NaN
        ELSE FSqrt(Frac(n * SeqSum(SeqSquares(s)) - SeqSum(s) * SeqSum(s), n * (n - 1)))

\* Series.quantile(qn/qd), linear interpolation between the two order statistics
\* around position (n - 1) * q of the sorted values.
SeriesQuantile(s, qn, qd) ==
    LET n == Len(s)
        sorted == SortSeq(s, LAMBDA a, b : a < b)
        pos == (n - 1) * qn
        lo == pos \div qd
        rem == pos % qd
    IN  IF n = 0 THEN NaN
        ELSE IF rem = 0 THEN Num(sorted[lo + 1])
        ELSE FAdd(Num(sorted[lo + 1]),
                  FMul(Num(sorted[lo + 2] - sorted[lo + 1]), Frac(rem, qd)))

\* (series > threshold).mean(): the fraction of rows above the threshold.
FractionAbove(s, threshold) ==
    IF Len(s) = 0 THEN NaN
    ELSE Frac(Cardinality({i \in 1..Len(s) : FGt(Num(s[i]), threshold)}), Len(s))

\* --------------------------------------------------- create_solar_score
ENERGY_CEILING == 500
QUANTILE_NUM == 7
QUANTILE_DEN == 10
RH_THRESHOLD == 85
W_ENERGY == 40
W_CONSISTENCY == 30
W_RELIABILITY == 20
W_WEATHER == 10

\* A scorer that falls back to 100 when the standard deviation is not positive.
ConsistencyEntry_DefaultsTo100(ghi) ==
    IF FGt(SeriesStd(ghi), Num(0))
    THEN "consistency" :>
             PyMax(FMul(FSub(Num(1), FDiv(SeriesStd(ghi), SeriesMean(ghi))), Num(100)),
                   Num(0))
    ELSE "consistency" :> Num(100)

\* if df['GHI'].std() > 0: scores['consistency'] = max((1 - std/mean) * 100, 0)
ConsistencyEntry(ghi) ==
    IF FGt(SeriesStd(ghi), Num(0))
    THEN "consistency" :>
             PyMax(FMul(FSub(Num(1), FDiv(SeriesStd(ghi), SeriesMean(ghi))), Num(100)),
                   Num(0))
    ELSE <<>>

\* (series >= threshold).mean()
FractionAtLeast(s, threshold) ==
    Frac(Cardinality({i \in 1..Len(s) : ~FGt(threshold, Num(s[i]))}), Len(s))

\* A reliability that counts the rows at the threshold too.
Reliability_AtLeast(ghi) ==
    FMul(FractionAtLeast(ghi, SeriesQuantile(ghi, QUANTILE_NUM, QUANTILE_DEN)), Num(100))

\* A reliability measured against the 0.30 quantile.
Reliability_LowQuantile(ghi) ==
    FMul(FractionAbove(ghi, SeriesQuantile(ghi, QUANTILE_DEN - QUANTILE_NUM, QUANTILE_DEN)),
         Num(100))

\* reliability = (df['GHI'] > df['GHI'].quantile(0.7)).mean() * 100
Reliability(ghi) ==
    FMul(FractionAbove(ghi, SeriesQuantile(ghi, QUANTILE_NUM, QUANTILE_DEN)), Num(100))

\* A weather score that takes RH >= 85 for high humidity.
WeatherScore_AtLeast(df) ==
    LET high_humidity == FMul(FractionAtLeast(df.data["RH"], Num(RH_THRESHOLD)), Num(100))
        weather_score == IF HasColumn(df, "RH")
                         THEN FSub(Num(100), FMul(high_humidity, Frac(1, 2)))
                         ELSE Num(100)
    IN  PyMax(weather_score, Num(0))

\* weather_score = 100, less 0.5 * the percentage of rows with RH > 85; max(.., 0)
WeatherScore(df) ==
    LET high_humidity == FMul(FractionAbove(df.data["RH"], Num(RH_THRESHOLD)), Num(100))
        weather_score == IF HasColumn(df, "RH")
                         THEN FSub(Num(100), FMul(high_humidity, Frac(1, 2)))
                         ELSE Num(100)
    IN  PyMax(weather_score, Num(0))

\* scores after line 58, in insertion order of its keys.
RawScores(df) ==
    LET ghi == df.data["GHI"]
    IN  ("energy" :> SeriesMean(ghi)) @@ ConsistencyEntry(ghi)
        @@ ("reliability" :> Reliability(ghi)) @@ ("weather" :> WeatherScore(df))

COMPONENT_KEYS == <<"energy", "consistency", "reliability", "weather">>

\* A scorer that divides by the fixed 500 instead of max(energy_score, 500).
NormalizedScores_FixedCeiling(scores) ==
    [energy |-> FMul(FDiv(scores["energy"], Num(ENERGY_CEILING)), Num(W_ENERGY)),
     consistency |-> FMul(FDiv(scores["consistency"], Num(100)), Num(W_CONSISTENCY)),
     reliability |-> FMul(FDiv(scores["reliability"], Num(100)), Num(W_RELIABILITY)),
     weather |-> FMul(FDiv(scores["weather"], Num(100)), Num(W_WEATHER))]

\* normalized_scores, given scores with every key present.
NormalizedScores(scores) ==
    LET energy_score == scores["energy"]
        max_energy == PyMax(energy_score, Num(ENERGY_CEILING))
    IN  [energy |-> FMul(FDiv(energy_score, max_energy), Num(W_ENERGY)),
         consistency |-> FMul(FDiv(scores["consistency"], Num(100)), Num(W_CONSISTENCY)),
         reliability |-> FMul(FDiv(scores["reliability"], Num(100)), Num(W_RELIABILITY)),
         weather |-> FMul(FDiv(scores["weather"], Num(100)), Num(W_WEATHER))]

\* A total that leaves the last component out.
TotalScore_DropsWeather(components) ==
    PySum([i \in 1..(Len(COMPONENT_KEYS) - 1) |-> components[COMPONENT_KEYS[i]]])

\* sum(normalized_scores.values())
TotalScore(components) ==
    PySum([i \in 1..Len(COMPONENT_KEYS) |-> components[COMPONENT_KEYS[i]]])

\* Lines 36-75: the outcome once GHI is known to be present: the score record, or
\* the exception raised (scores['consistency'] at line 64 is a KeyError when the
\* key was never set; the scores built so far are kept for inspection).
ScoreBody(df) ==
    LET scores == RawScores(df)
    IN  IF "consistency" \notin DOMAIN scores
        THEN [kind |-> "raise", exc |-> "KeyError", key |-> "consistency",
              scores |-> scores]
        ELSE [kind |-> "dict",
              total_score |-> TotalScore(NormalizedScores(scores)),
              components |-> NormalizedScores(scores),
              raw_scores |-> scores]

\* A scorer without the guard of line 33: df['GHI'] raises KeyError.
create_solar_score_NoGuard(df) ==
    IF HasColumn(df, "GHI") THEN ScoreBody(df)
    ELSE [kind |-> "raise", exc |-> "KeyError", key |-> "GHI", scores |-> <<>>]

\* The outcome of a call: None when GHI is absent, else the body's.
create_solar_score(df) ==
    IF ~HasColumn(df, "GHI") THEN None ELSE ScoreBody(df)

\* ---------------------------------------------------------- datetimes
\* A timestamp cell of the CSV is the text "YYYY-MM-DD HH:00:00", held as its fields
\* <<YYYY, MM, DD, HH>>; a parsed pandas Timestamp is the number of hours since
\* 1970-01-01 00:00.
IsLeap(y) == (y % 4 = 0 /\ y % 100 # 0) \/ y % 400 = 0

DaysInMonth(y, m) ==
    IF m = 2 THEN (IF IsLeap(y) THEN 29 ELSE 28)
    ELSE IF m \in {4, 6, 9, 11} THEN 30 ELSE 31

\* Whether pd.to_datetime can parse the cell.
IsDateText(c) ==
    /\ c[2] \in 1..12
    /\ c[3] \in 1..DaysInMonth(c[1], c[2])
    /\ c[4] \in 0..23

\* Days from 1970-01-01 to the civil date y-m-d (proleptic Gregorian).
DaysFromCivil(y, m, d) ==
    LET yy == IF m <= 2 THEN y - 1 ELSE y
        era == yy \div 400
        yoe == yy - era * 400
        mp == IF m > 2 THEN m - 3 ELSE m + 9
        doy == (153 * mp + 2) \div 5 + d - 1
        doe == yoe * 365 + yoe \div 4 - yoe \div 100 + doy
    IN  era * 146097 + doe - 719468

\* pd.to_datetime of one parseable cell.
ParseTimestamp(c) == DaysFromCivil(c[1], c[2], c[3]) * 24 + c[4]

\* Timestamp.hour, .dayofweek (Monday = 0; 1970-01-01 was a Thursday), .month
TsHour(ts) == ts % 24

\* A day of the week that counts from Sunday = 0.
TsDayOfWeek_SundayZero(ts) == ((ts \div 24) + 4) % 7

TsDayOfWeek(ts) == ((ts \div 24) + 3) % 7

TsMonth(ts) ==
    LET z == (ts \div 24) + 719468
        era == z \div 146097
        doe == z - era * 146097
        yoe == (doe - doe \div 1460 + doe \div 36524 - doe \div 146096) \div 365
        doy == doe - (365 * yoe + yoe \div 4 - yoe \div 100)
        mp == (5 * doy + 2) \div 153
    IN  IF mp < 10 THEN mp + 3 ELSE mp - 9

\* ------------------------------------------------------------- load_data
timestamp_cols == <<"Timestamp", "timestamp", "Date", "date", "Time", "time">>

Raise(exc, detail) == [kind |-> "raise", exc |-> exc, detail |-> detail]
Ok(value) == [kind |-> "ok", value |-> value]

\* pd.read_csv(uploaded_file): the table under a positional index, or the parser's
\* exception for a file it cannot read.
read_csv(file) ==
    IF ~file.readable THEN Raise("ParserError", "Error tokenizing data")
    ELSE Ok(DataFrame(file.columns, file.data, RangeIndex(file.nrows)))

\* A scan that walks the table's own columns and takes the first that is a candidate.
RECURSIVE FirstTimestampCol_TableOrder(_, _)
FirstTimestampCol_TableOrder(frame, i) ==
    IF i > Len(frame.columns) THEN ""
    ELSE IF \E k \in 1..Len(timestamp_cols) : timestamp_cols[k] = frame.columns[i]
         THEN frame.columns[i]
         ELSE FirstTimestampCol_TableOrder(frame, i + 1)

\* for col in timestamp_cols: if col in df.columns: ... break
\* The column the loop stops at, from candidate i on; "" when it runs out.
RECURSIVE FirstTimestampCol(_, _)
FirstTimestampCol(frame, i) ==
    IF i > Len(timestamp_cols) THEN ""
    ELSE IF HasColumn(frame, timestamp_cols[i]) THEN timestamp_cols[i]
         ELSE FirstTimestampCol(frame, i + 1)

\* The sequence s without its entries equal to x.
RECURSIVE Without(_, _)
Without(s, x) ==
    IF s = <<>> THEN <<>>
    ELSE IF Head(s) = x THEN Without(Tail(s), x) ELSE <<Head(s)>> \o Without(Tail(s), x)

\* df[col] = pd.to_datetime(df[col]); df.set_index(col, inplace=True)
set_index(frame, col) ==
    DataFrame(Without(frame.columns, col),
              [c \in DOMAIN frame.data \ {col} |-> frame.data[c]],
              [kind |-> "DatetimeIndex", name |-> col,
               values |-> [i \in 1..Len(frame.data[col]) |->
                               ParseTimestamp(frame.data[col][i])]])

\* df[name] = values: replaces the column, or appends it.
SetColumn(frame, name, values) ==
    DataFrame(IF HasColumn(frame, name) THEN frame.columns
              ELSE Append(frame.columns, name),
              (name :> values) @@ frame.data,
              frame.index)

\* Lines 22-24: Hour, Month, DayOfWeek from the index.
AddTimeFeatures(frame) ==
    LET ix == frame.index.values
        n == Len(ix)
    IN  SetColumn(SetColumn(SetColumn(frame,
            "Hour", [i \in 1..n |-> TsHour(ix[i])]),
            "Month", [i \in 1..n |-> TsMonth(ix[i])]),
            "DayOfWeek", [i \in 1..n |-> TsDayOfWeek(ix[i])])

\* Lines 13-24 on the table read_csv returned: the enriched table, or the
\* exception raised on the way.
Ingest(frame) ==
    LET col == FirstTimestampCol(frame, 1)
    IN  IF col # "" /\ \E i \in 1..Len(frame.data[col]) : ~IsDateText(frame.data[col][i])
        THEN Raise("ValueError", "Unknown datetime string format")
        ELSE LET indexed == IF col # "" THEN set_index(frame, col) ELSE frame
             IN  IF indexed.index.kind # "DatetimeIndex"
                 THEN Raise("AttributeError",
                            "'RangeIndex' object has no attribute 'hour'")
                 ELSE Ok(AddTimeFeatures(indexed))

\* The try block, lines 11-24.
LoadBody(file) ==
    IF read_csv(file).kind = "raise" THEN read_csv(file)
    ELSE Ingest(read_csv(file).value)

\* f"Successfully loaded {len(df)} rows with {len(df.columns)} columns"
SuccessMessage(frame) ==
    [kind |-> "success", rows |-> NRows(frame), columns |-> Len(frame.columns)]

\* f"Error loading file: {str(e)}"
ErrorMessage(e) == [kind |-> "error", detail |-> e.detail]

\* A handler that catches only what read_csv raises.
Handle_ParserErrorOnly(outcome) ==
    IF outcome.kind = "raise" /\ outcome.exc = "ParserError"
    THEN [kind |-> "return", table |-> None, message |-> ErrorMessage(outcome)]
    ELSE IF outcome.kind = "raise" THEN outcome
    ELSE [kind |-> "return", table |-> outcome.value,
          message |-> SuccessMessage(outcome.value)]

\* try: ... return df, message / except Exception as e: return None, message
Handle(outcome) ==
    IF outcome.kind = "raise"
    THEN [kind |-> "return", table |-> None, message |-> ErrorMessage(outcome)]
    ELSE [kind |-> "return", table |-> outcome.value,
          message |-> SuccessMessage(outcome.value)]

\* What a call of load_data does: returns (table, message), or propagates.
load_data(file) == Handle(LoadBody(file))

\* ------------------------------------------------------------------- state
VARIABLES
    pc,             \* the position of the running function
    uploaded_file,  \* main: what the file uploader returned
    df,             \* the table: load_data's result, create_solar_score's argument
    message,        \* load_data's message
    score_data,     \* create_solar_score's outcome
    filters,        \* render_sidebar_filters' result
    plot_type,      \* the plot type picked in the Analysis tab
    exception,      \* the exception that ended the run, if one propagated
    calls,          \* the functions called so far in this run, in order
    rendered,       \* the sections put on the page in this run
    history         \* the create_solar_score calls made one after another

vars == <<pc, uploaded_file, df, message, score_data, filters, plot_type, exception,
          calls, rendered, history>>

NotCalled == [kind |-> "NotCalled"]
NoMessage == [kind |-> "NoMessage"]

\* ------------------------------------------- the scorer, called on its own
\* Every way of choosing the cells of the present columns among `vals`.
ColumnData(present, name, n, vals) ==
    IF present THEN {name :> s : s \in [1..n -> vals]} ELSE {<<>>}

ColumnNames(hasGHI, hasRH, hasTamb) ==
    (IF hasGHI THEN <<"GHI">> ELSE <<>>) \o (IF hasRH THEN <<"RH">> ELSE <<>>)
    \o (IF hasTamb THEN <<"Tamb">> ELSE <<>>)

\* The tables of n rows the scorer is called on: any of GHI, RH, Tamb.
ScoreTables(n) ==
    UNION {
        {DataFrame(ColumnNames(g, r, t), dg @@ dr @@ dt, RangeIndex(n)) :
            dg \in ColumnData(g, "GHI", n, GHIVals),
            dr \in ColumnData(r, "RH", n, RHVals),
            dt \in ColumnData(t, "Tamb", n, TambVals)} :
        g \in BOOLEAN, r \in BOOLEAN, t \in BOOLEAN}

ScoreInit ==
    /\ pc = "score"
    /\ \E n \in 1..MaxRows : df \in ScoreTables(n)
    /\ score_data = NotCalled
    /\ uploaded_file = None
    /\ message = NoMessage
    /\ filters = NotCalled
    /\ plot_type = ""
    /\ exception = None
    /\ calls = <<>>
    /\ rendered = {}
    /\ history = <<>>

\* score_data = create_solar_score(df)
ScoreCall ==
    /\ pc = "score"
    /\ score_data' = create_solar_score(df)
    /\ pc' = "scored"
    /\ calls' = <<"create_solar_score">>
    /\ UNCHANGED <<history, uploaded_file, df, message, filters, plot_type, exception, rendered>>

ScoreNext == ScoreCall

ScoreSpec == ScoreInit /\ [][ScoreNext]_vars

\* ------------------------------- the scorer, called on one table after another
MaxCalls == 3
SeqRows == {1, 2}
SeqGHIVals == {100, 600}

\* The tables passed in a run of calls: GHI columns of one or two rows, and a
\* table without GHI.
SeqTables ==
    UNION {{DataFrame(<<"GHI">>, dg, RangeIndex(n)) :
                dg \in ColumnData(TRUE, "GHI", n, SeqGHIVals)} : n \in SeqRows}
    \cup {DataFrame(<<"Tamb">>, "Tamb" :> <<25>>, RangeIndex(1))}

\* A scorer whose scores dict outlives the call: a key the current table does not
\* set keeps the value the call before it stored.
ScoreOutcome_SharedScores(table, earlier) ==
    LET last == earlier[Len(earlier)].out
        kept == IF earlier = <<>> \/ last = None THEN <<>>
                ELSE IF last.kind = "dict" THEN last.raw_scores ELSE last.scores
        scores == RawScores(table) @@ kept
    IN  IF ~HasColumn(table, "GHI") THEN None
        ELSE IF "consistency" \notin DOMAIN scores
        THEN [kind |-> "raise", exc |-> "KeyError", key |-> "consistency",
              scores |-> scores]
        ELSE [kind |-> "dict",
              total_score |-> TotalScore(NormalizedScores(scores)),
              components |-> NormalizedScores(scores),
              raw_scores |-> scores]

\* The outcome of a call made after the calls of `earlier`: scores = {} at line 36
\* is a new local dict and the module keeps no state, so only the table counts.
ScoreOutcome(table, earlier) == create_solar_score(table)

ScoreSeqInit ==
    /\ pc = "score"
    /\ df \in SeqTables
    /\ score_data = NotCalled
    /\ uploaded_file = None
    /\ message = NoMessage
    /\ filters = NotCalled
    /\ plot_type = ""
    /\ exception = None
    /\ calls = <<>>
    /\ rendered = {}
    /\ history = <<>>

\* score_data = create_solar_score(df), recorded with the table passed and the
\* table as the call left it (the body only reads df: lines 33-55).
ScoreSeqCall ==
    /\ pc = "score"
    /\ score_data' = ScoreOutcome(df, history)
    /\ history' = Append(history, [arg |-> df, after |-> df, out |-> score_data'])
    /\ calls' = Append(calls, "create_solar_score")
    /\ pc' = "scored"
    /\ UNCHANGED <<uploaded_file, df, message, filters, plot_type, exception, rendered>>

\* The caller passes another table (or the same one) to the next call.
ScoreSeqPick ==
    /\ pc = "scored"
    /\ Len(history) < MaxCalls
    /\ df' \in SeqTables
    /\ pc' = "score"
    /\ UNCHANGED <<uploaded_file, message, score_data, filters, plot_type, exception,
                   calls, rendered, history>>

ScoreSeqNext == ScoreSeqCall \/ ScoreSeqPick

ScoreSeqSpec == ScoreSeqInit /\ [][ScoreSeqNext]_vars

\* --------------------------------------- the scorer, called on longer tables
MaxTallRows == 5
TallGHIVals == {-1, 0, 2}

\* The tables of n rows with a GHI column only.
TallTables(n) ==
    {DataFrame(<<"GHI">>, dg, RangeIndex(n)) : dg \in ColumnData(TRUE, "GHI", n, TallGHIVals)}

TallScoreInit ==
    /\ pc = "score"
    /\ \E n \in 1..MaxTallRows : df \in TallTables(n)
    /\ score_data = NotCalled
    /\ uploaded_file = None
    /\ message = NoMessage
    /\ filters = NotCalled
    /\ plot_type = ""
    /\ exception = None
    /\ calls = <<>>
    /\ rendered = {}
    /\ history = <<>>

TallScoreSpec == TallScoreInit /\ [][ScoreNext]_vars


\* ------------------------------------------- the loader, called on its own
MaxTsCols == 2

Range(s) == {s[i] : i \in 1..Len(s)}

\* The timestamp-like columns of an uploaded table, in file order: up to
\* MaxTsCols distinct candidate names.
TsColumnSeqs ==
    {s \in UNION {[1..k -> Range(timestamp_cols)] : k \in 0..MaxTsCols} :
        \A i, j \in 1..Len(s) : i # j => s[i] # s[j]}

\* The cells a timestamp-like column may hold: two runs of dates, and the first
\* run with an unparseable last cell (month 13).
TsCells(variant, n) ==
    [i \in 1..n |->
        IF variant = 1
        THEN <<2024, 1 + ((5 * i) % 12), 1 + ((11 * i) % 28), (7 * i) % 24>>
        ELSE IF variant = 2
        THEN <<2023, 1 + ((7 * i) % 12), 1 + ((13 * i) % 28), (5 * i) % 24>>
        ELSE IF i = n THEN <<2024, 13, 1, 0>>
        ELSE <<2024, 1 + ((5 * i) % 12), 1 + ((11 * i) % 28), (7 * i) % 24>>]

TsData(cols, n) ==
    {[c \in Range(cols) |-> TsCells(v[c], n)] : v \in [Range(cols) -> 1..3]}

UploadedFile(columns, data, n) ==
    [kind |-> "UploadedFile", name |-> "data.csv", readable |-> TRUE,
     columns |-> columns, data |-> data, nrows |-> n]

UnreadableFile ==
    [kind |-> "UploadedFile", name |-> "data.csv", readable |-> FALSE,
     columns |-> <<>>, data |-> <<>>, nrows |-> 0]

\* Uploads of n rows with timestamp-like columns `ts`, and GHI / RH columns over
\* the given cell values (an empty set of values: the column is always absent).
Uploads(n, tsSeqs, ghiVals, rhVals) ==
    UNION {
        {UploadedFile(ts \o ColumnNames(g, r, FALSE), dts @@ dg @@ dr, n) :
            dts \in TsData(ts, n),
            dg \in ColumnData(g, "GHI", n, ghiVals),
            dr \in ColumnData(r, "RH", n, rhVals)} :
        ts \in tsSeqs,
        g \in {b \in BOOLEAN : b => ghiVals # {}},
        r \in {b \in BOOLEAN : b => rhVals # {}}}

LoadFiles(n) == {UnreadableFile} \cup Uploads(n, TsColumnSeqs, {100}, {})

\* df, message = load_data(uploaded_file)
CallLoadData(nextpc) ==
    LET r == load_data(uploaded_file)
    IN  /\ calls' = Append(calls, "load_data")
        /\ IF r.kind = "return"
           THEN /\ df' = r.table
                /\ message' = r.message
                /\ pc' = nextpc
                /\ UNCHANGED exception
           ELSE /\ exception' = r
                /\ pc' = "crashed"
                /\ UNCHANGED <<df, message>>

LoadInit ==
    /\ pc = "load"
    /\ \E n \in 1..MaxRows : uploaded_file \in LoadFiles(n)
    /\ df = NotCalled
    /\ message = NoMessage
    /\ score_data = NotCalled
    /\ filters = NotCalled
    /\ plot_type = ""
    /\ exception = None
    /\ calls = <<>>
    /\ rendered = {}
    /\ history = <<>>

LoadCall ==
    /\ pc = "load"
    /\ CallLoadData("loaded")
    /\ UNCHANGED <<history, uploaded_file, score_data, filters, plot_type, rendered>>

LoadNext == LoadCall

LoadSpec == LoadInit /\ [][LoadNext]_vars

\* ------------------------------------------------- components.py renderers
\* Each renderer yields the sections it puts on the page, or the exception it
\* raises; attribute access or subscription on None raises.
FGe(a, b) == ~IsNaN(a) /\ ~IsNaN(b) /\ ~FGt(b, a)

\* Python truth of create_solar_score's result: None is false, the record is true.
Truthy(value) == value.kind # "None"

\* df.select_dtypes(include=[np.number]).columns.tolist(): every column but the
\* unparsed date texts.
RECURSIVE NumericCols(_)
NumericCols(columns) ==
    IF columns = <<>> THEN <<>>
    ELSE IF Head(columns) \in Range(timestamp_cols) THEN NumericCols(Tail(columns))
         ELSE <<Head(columns)>> \o NumericCols(Tail(columns))

\* render_sidebar_filters(df): the default selection is the first three metrics.
render_sidebar_filters(frame) ==
    IF frame.kind = "None"
    THEN Raise("AttributeError", "'NoneType' object has no attribute 'index'")
    ELSE LET numeric_cols == NumericCols(frame.columns)
         IN  Ok([selected_columns |->
                     IF Len(numeric_cols) >= 3 THEN SubSeq(numeric_cols, 1, 3)
                     ELSE numeric_cols,
                 analysis_type |-> "Solar Potential"])

ScorecardSections ==
    {"scorecard: Solar Potential Assessment", "scorecard: Overall Score",
     "scorecard: Energy Potential", "scorecard: Consistency",
     "scorecard: Reliability", "scorecard: Score Components"}

\* A scorecard without the guard of lines 57-58.
render_solar_scorecard_NoGuard(data) ==
    IF data.kind = "None"
    THEN Raise("TypeError", "'NoneType' object is not subscriptable")
    ELSE Ok(ScorecardSections)

\* render_solar_scorecard(score_data, filename)
render_solar_scorecard(data) ==
    IF ~Truthy(data) THEN Ok({}) ELSE Ok(ScorecardSections)

\* main.py 75-87: the quick stats of the Overview tab.
QuickStats(frame) ==
    {"metric: Average " \o c : c \in Range(frame.columns) \cap {"GHI", "Tamb", "RH", "WS"}}

PlotTypes == {"Time Series", "Distribution", "Correlation", "Scatter Plot", "Daily Pattern"}

\* render_interactive_plots(df, filters), with the plot type the user picked.
render_interactive_plots(frame, flt, choice) ==
    IF frame.kind = "None"
    THEN Raise("TypeError", "'NoneType' object is not subscriptable")
    ELSE Ok({"Interactive Analysis"} \cup
            (IF choice = "Correlation"
             THEN (IF Len(flt.selected_columns) >= 2 THEN {"chart: Correlation"}
                   ELSE {"warning: Select at least 2 metrics"})
             ELSE IF choice = "Daily Pattern"
             THEN (IF HasColumn(frame, "GHI") /\ HasColumn(frame, "Hour")
                   THEN {"chart: Daily Pattern"} ELSE {})
             ELSE {"chart: " \o choice}))

weather_vars == <<"Tamb", "RH", "WS", "BP", "Precipitation">>

\* render_weather_impact(df)
render_weather_impact(frame) ==
    IF frame.kind = "None"
    THEN Raise("AttributeError", "'NoneType' object has no attribute 'columns'")
    ELSE IF ~HasColumn(frame, "GHI") THEN Ok({})
    ELSE Ok({"Weather Impact Analysis"} \cup
            (IF Range(weather_vars) \cap Range(frame.columns) # {}
             THEN {"chart: GHI vs weather", "info: Correlation"} ELSE {}))

\* render_data_overview(df, filename)
render_data_overview(frame) ==
    IF frame.kind = "None"
    THEN Raise("TypeError", "object of type 'NoneType' has no len()")
    ELSE Ok({"Data Overview", "View Raw Data", "Column Information"})

EXCELLENT_MIN == 80
GOOD_MIN == 60

\* main.py 98-152: the Insights tab.
Insights(data) ==
    {"Business Insights & Recommendations", "Technology Recommendations"} \cup
    (IF Truthy(data)
     THEN {"insights: Solar Potential Assessment",
           IF FGe(data.total_score, Num(EXCELLENT_MIN)) THEN "EXCELLENT POTENTIAL"
           ELSE IF FGe(data.total_score, Num(GOOD_MIN)) THEN "GOOD POTENTIAL"
           ELSE "MODERATE POTENTIAL"}
     ELSE {})

\* ------------------------------------------------------------------ main()
\* The uploads the dashboard is run on.
MainFiles(n) ==
    {UnreadableFile}
    \cup Uploads(n, {<<>>, <<"Timestamp">>, <<"date">>}, {100, 600}, {90})

\* A branch taken whatever load_data returned.
DfIsNotNone_Always(table) == TRUE

\* main.py 59: if df is not None
DfIsNotNone(table) == table.kind # "None"

Init ==
    /\ pc = "start"
    /\ uploaded_file = None
    /\ df = NotCalled
    /\ message = NoMessage
    /\ score_data = NotCalled
    /\ filters = NotCalled
    /\ plot_type = ""
    /\ exception = None
    /\ calls = <<>>
    /\ rendered = {}
    /\ history = <<>>

\* A renderer's outcome: its sections go on the page, or its exception ends the run.
Show(outcome, nextpc) ==
    IF outcome.kind = "raise"
    THEN /\ exception' = outcome
         /\ pc' = "crashed"
         /\ UNCHANGED rendered
    ELSE /\ rendered' = rendered \cup outcome.value
         /\ pc' = nextpc
         /\ UNCHANGED exception

\* main.py 53: uploaded_file = render_file_uploader()
RenderFileUploader ==
    /\ pc = "start"
    /\ \E n \in 1..MaxRows : uploaded_file' \in {None} \cup MainFiles(n)
    /\ calls' = Append(calls, "render_file_uploader")
    /\ pc' = "uploaded"
    /\ UNCHANGED <<history, df, message, score_data, filters, plot_type, exception, rendered>>

\* main.py 163-195: no file yet, the welcome screen.
Welcome ==
    /\ pc = "uploaded"
    /\ uploaded_file.kind = "None"
    /\ rendered' = rendered \cup {"Get Started", "Expected Data Format"}
    /\ pc' = "done"
    /\ UNCHANGED <<history, uploaded_file, df, message, score_data, filters, plot_type,
                   exception, calls>>

\* main.py 57: df, message = load_data(uploaded_file)
MainLoad ==
    /\ pc = "uploaded"
    /\ uploaded_file.kind # "None"
    /\ CallLoadData("loaded")
    /\ UNCHANGED <<history, uploaded_file, score_data, filters, plot_type, rendered>>

\* main.py 154-161: the load failed; the error and the expected format are shown.
LoadFailed ==
    /\ pc = "loaded"
    /\ ~DfIsNotNone(df)
    /\ rendered' = rendered \cup {"error: " \o message.kind, "Expected CSV Format"}
    /\ pc' = "done"
    /\ UNCHANGED <<history, uploaded_file, df, message, score_data, filters, plot_type,
                   exception, calls>>

\* main.py 59-63: the load succeeded; the sidebar filters are rendered.
RenderSidebarFilters ==
    /\ pc = "loaded"
    /\ DfIsNotNone(df)
    /\ calls' = Append(calls, "render_sidebar_filters")
    /\ LET r == render_sidebar_filters(df)
       IN  IF r.kind = "raise"
           THEN /\ exception' = r
                /\ pc' = "crashed"
                /\ UNCHANGED <<filters, rendered>>
           ELSE /\ filters' = r.value
                /\ rendered' = rendered \cup {"success: " \o message.kind}
                /\ pc' = "tab1"
                /\ UNCHANGED exception
    /\ UNCHANGED <<history, uploaded_file, df, message, score_data, plot_type>>

\* main.py 72: score_data = create_solar_score(df); its exception ends the run.
Tab1Score ==
    /\ pc = "tab1"
    /\ calls' = Append(calls, "create_solar_score")
    /\ LET r == create_solar_score(df)
       IN  IF r.kind = "raise"
           THEN /\ exception' = r
                /\ pc' = "crashed"
                /\ UNCHANGED score_data
           ELSE /\ score_data' = r
                /\ pc' = "scorecard"
                /\ UNCHANGED exception
    /\ UNCHANGED <<history, uploaded_file, df, message, filters, plot_type, rendered>>

\* main.py 73-87: render_solar_scorecard(score_data, name), then the quick stats.
Tab1Scorecard ==
    /\ pc = "scorecard"
    /\ calls' = Append(calls, "render_solar_scorecard")
    /\ LET r == render_solar_scorecard(score_data)
       IN  Show(IF r.kind = "raise" THEN r ELSE Ok(r.value \cup QuickStats(df)), "tab2")
    /\ UNCHANGED <<history, uploaded_file, df, message, score_data, filters, plot_type>>

\* main.py 89-90: render_interactive_plots(df, filters)
Tab2Plots ==
    /\ pc = "tab2"
    /\ calls' = Append(calls, "render_interactive_plots")
    /\ \E choice \in PlotTypes :
           /\ plot_type' = choice
           /\ Show(render_interactive_plots(df, filters, choice), "tab3")
    /\ UNCHANGED <<history, uploaded_file, df, message, score_data, filters>>

\* main.py 92-93: render_weather_impact(df)
Tab3Weather ==
    /\ pc = "tab3"
    /\ calls' = Append(calls, "render_weather_impact")
    /\ Show(render_weather_impact(df), "tab4")
    /\ UNCHANGED <<history, uploaded_file, df, message, score_data, filters, plot_type>>

\* main.py 95-96: render_data_overview(df, name)
Tab4Data ==
    /\ pc = "tab4"
    /\ calls' = Append(calls, "render_data_overview")
    /\ Show(render_data_overview(df), "tab5")
    /\ UNCHANGED <<history, uploaded_file, df, message, score_data, filters, plot_type>>

\* main.py 98-152: the Insights tab, the last statement of main.
Tab5Insights ==
    /\ pc = "tab5"
    /\ Show(Ok(Insights(score_data)), "done")
    /\ UNCHANGED <<history, uploaded_file, df, message, score_data, filters, plot_type, calls>>

\* Streamlit runs main() again from the top on the next interaction.
Rerun ==
    /\ pc \in {"done", "crashed"}
    /\ pc' = "start"
    /\ uploaded_file' = None
    /\ df' = NotCalled
    /\ message' = NoMessage
    /\ score_data' = NotCalled
    /\ filters' = NotCalled
    /\ plot_type' = ""
    /\ exception' = None
    /\ calls' = <<>>
    /\ rendered' = {}
    /\ history' = <<>>

Next ==
    \/ RenderFileUploader
    \/ Welcome
    \/ MainLoad
    \/ LoadFailed
    \/ RenderSidebarFilters
    \/ Tab1Score
    \/ Tab1Scorecard
    \/ Tab2Plots
    \/ Tab3Weather
    \/ Tab4Data
    \/ Tab5Insights
    \/ Rerun

Spec == Init /\ [][Next]_vars

\* ----------------------------------------------------- claims on the scorer
Scored == pc = "scored"
Returned == Scored /\ score_data.kind = "dict"
Raised == Scored /\ score_data.kind = "raise"
GHI == df.data["GHI"]
AllNonNegative(s) == \A i \in 1..Len(s) : s[i] >= 0
IsConstant(s) == \A i \in 1..Len(s) : s[i] = s[1]

\* C1: in every returned Score Record, total_score is exactly
\* energy + consistency + reliability + weather of its components mapping.
C1_TotalIsSumOfComponents ==
    Returned =>
        score_data.total_score =
            FAdd(FAdd(FAdd(score_data.components.energy,
                           score_data.components.consistency),
                      score_data.components.reliability),
                 score_data.components.weather)

\* A record whose components are all non-zero and whose total is not a whole number.
C1_Witness ==
    /\ Returned
    /\ \A k \in {"energy", "consistency", "reliability", "weather"} :
           score_data.components[k].n > 0
    /\ score_data.total_score.d > 1

\* C2: a table with no GHI column, whatever else it holds, scores as None and
\* raises nothing.
C2_NoGHIReturnsNone ==
    (Scored /\ ~HasColumn(df, "GHI")) => score_data.kind = "None"

\* A table with RH and Tamb columns and several rows, but no GHI, was scored.
C2_Witness ==
    /\ Scored
    /\ ~HasColumn(df, "GHI") /\ HasColumn(df, "RH") /\ HasColumn(df, "Tamb")
    /\ NRows(df) >= 2
    /\ score_data.kind = "None"

InRange(x, hi) == FLe(Num(0), x) /\ FLe(x, Num(hi))

\* C3: for non-negative GHI every weighted component of a returned record lies
\* between 0 and its weight: energy <= 40, consistency <= 30, reliability <= 20,
\* weather <= 10.
C3_ComponentsWithinWeights ==
    (Returned /\ AllNonNegative(GHI)) =>
        /\ InRange(score_data.components.energy, W_ENERGY)
        /\ InRange(score_data.components.consistency, W_CONSISTENCY)
        /\ InRange(score_data.components.reliability, W_RELIABILITY)
        /\ InRange(score_data.components.weather, W_WEATHER)

\* Mean GHI above 500: the energy component sits at its ceiling of 40, and the
\* consistency component is strictly inside its range.
C3_Witness ==
    /\ Returned /\ AllNonNegative(GHI)
    /\ FGt(score_data.raw_scores.energy, Num(ENERGY_CEILING))
    /\ score_data.components.energy = Num(W_ENERGY)
    /\ FGt(score_data.components.consistency, Num(0))

ConstantPositiveGHI ==
    Scored /\ HasColumn(df, "GHI") /\ IsConstant(GHI) /\ GHI[1] > 0

\* C4: for a constant GHI column of value v > 0 the call yields a record whose
\* reliability raw is 0.
C4_ConstantGHIReliabilityZero ==
    ConstantPositiveGHI =>
        /\ score_data.kind = "dict"
        /\ score_data.raw_scores.reliability = Num(0)

Min(a, b) == IF a < b THEN a ELSE b
Max(a, b) == IF a > b THEN a ELSE b

\* C5: for a constant GHI column of value v > 0 the call yields a record whose
\* energy component is min(v,500)/max(v,500) * 40.
C5_ConstantGHIEnergy ==
    ConstantPositiveGHI =>
        /\ score_data.kind = "dict"
        /\ score_data.components.energy =
               FMul(Frac(Min(GHI[1], ENERGY_CEILING), Max(GHI[1], ENERGY_CEILING)),
                    Num(W_ENERGY))

\* C6: with a GHI column whose standard deviation is not exactly zero the call
\* returns a record without raising, and a call that raises has a standard
\* deviation of exactly zero.
C6_TotalUnlessZeroStd ==
    (Scored /\ HasColumn(df, "GHI")) =>
        /\ SeriesStd(GHI) # Num(0) => score_data.kind = "dict"
        /\ score_data.kind = "raise" => SeriesStd(GHI) = Num(0)


ScoredWithGHI == Scored /\ HasColumn(df, "GHI")
RawOf(outcome) == IF outcome.kind = "dict" THEN outcome.raw_scores ELSE outcome.scores
HighHumidityRows == {i \in 1..NRows(df) : df.data["RH"][i] > 85}

\* C12: weather raw is between 0 and 100; it is exactly 100 when there is no RH
\* column or no RH value above 85, and below 100 only when some row has RH > 85.
C12_WeatherRawRange ==
    ScoredWithGHI =>
        LET weather == RawOf(score_data)["weather"]
        IN  /\ InRange(weather, 100)
            /\ (~HasColumn(df, "RH") \/ HighHumidityRows = {}) => weather = Num(100)
            /\ FGt(Num(100), weather) => (HasColumn(df, "RH") /\ HighHumidityRows # {})

\* A table with one RH cell at 85 and one above it was scored: weather raw is
\* below 100 and above 50.
C12_Witness ==
    /\ ScoredWithGHI /\ HasColumn(df, "RH")
    /\ HighHumidityRows # {}
    /\ \E i \in 1..NRows(df) : df.data["RH"][i] = 85
    /\ FGt(Num(100), RawOf(score_data)["weather"])
    /\ FGt(RawOf(score_data)["weather"], Num(50))

RowsAboveQuantile == {i \in 1..Len(GHI) : FGt(Num(GHI[i]), SeriesQuantile(GHI, 7, 10))}

\* C13: reliability raw is the percentage of rows whose GHI is strictly above the
\* 0.70 quantile of the column, and lies between 0 and 100.
C13_ReliabilityRawRange ==
    ScoredWithGHI =>
        /\ RawOf(score_data)["reliability"] =
               Frac(100 * Cardinality(RowsAboveQuantile), Len(GHI))
        /\ InRange(RawOf(score_data)["reliability"], 100)

\* Three rows, two of them equal, one row above the quantile: reliability 100/3.
C13_Witness ==
    /\ ScoredWithGHI /\ Len(GHI) = 3
    /\ Cardinality(RowsAboveQuantile) = 1
    /\ \E i, j \in 1..3 : i # j /\ GHI[i] = GHI[j]
    /\ RawOf(score_data)["reliability"] = Frac(100, 3)

\* C16: with a standard deviation of exactly zero no consistency raw value is
\* set, none is defaulted, and the call ends in KeyError: 'consistency'.
C16_ZeroStdLeavesConsistencyUnset ==
    (ScoredWithGHI /\ SeriesStd(GHI) = Num(0)) =>
        /\ score_data.kind = "raise"
        /\ score_data.exc = "KeyError"
        /\ score_data.key = "consistency"
        /\ "consistency" \notin DOMAIN score_data.scores

\* A constant column of two or more rows was scored: the other three raw scores
\* were set before the lookup failed.
C16_Witness ==
    /\ Raised /\ HasColumn(df, "GHI")
    /\ Len(GHI) >= 2 /\ IsConstant(GHI)
    /\ DOMAIN score_data.scores = {"energy", "reliability", "weather"}

C17_ReliabilityAtMostHalf ==
    ScoredWithGHI =>
        /\ 2 * Cardinality(RowsAboveQuantile) <= Len(GHI)
        /\ InRange(RawOf(score_data)["reliability"], 50)
        /\ Returned => InRange(score_data.components["reliability"], 10)

\* Two distinct rows were scored: reliability raw is 50 and its weighted
\* component 10.
C17_Witness ==
    /\ Returned /\ HasColumn(df, "GHI")
    /\ Len(GHI) = 2 /\ GHI[1] # GHI[2]
    /\ score_data.raw_scores["reliability"] = Num(50)
    /\ score_data.components["reliability"] = Num(10)

\* ----------------------------------------------------- claims on the loader
Loaded == pc = "loaded"
LoadedTable == Loaded /\ df.kind = "DataFrame"

\* The candidate names in the order the claim gives, and the first of them among
\* the uploaded table's columns.
C7_Candidates == <<"Timestamp", "timestamp", "Date", "date", "Time", "time">>
C7_Present == {k \in 1..Len(C7_Candidates) : C7_Candidates[k] \in Range(uploaded_file.columns)}
C7_First == C7_Candidates[CHOOSE k \in C7_Present : \A j \in C7_Present : k <= j]

\* C7: the loaded table is indexed by the first candidate, in the order Timestamp,
\* timestamp, Date, date, Time, time, that the upload has; that column leaves the
\* regular columns, and every other candidate column stays as it was uploaded.
C7_FirstCandidateBecomesIndex ==
    LoadedTable =>
        /\ C7_Present # {}
        /\ df.index.name = C7_First
        /\ df.index.values =
               [i \in 1..uploaded_file.nrows |->
                    ParseTimestamp(uploaded_file.data[C7_First][i])]
        /\ ~HasColumn(df, C7_First)
        /\ \A k \in C7_Present :
               C7_Candidates[k] # C7_First =>
                   /\ HasColumn(df, C7_Candidates[k])
                   /\ df.data[C7_Candidates[k]] = uploaded_file.data[C7_Candidates[k]]

\* An upload whose Date column comes before its Timestamp column, with other
\* dates in it: the table is indexed by Timestamp and keeps Date.
C7_Witness ==
    /\ LoadedTable
    /\ Len(uploaded_file.columns) >= 2
    /\ uploaded_file.columns[1] = "Date" /\ uploaded_file.columns[2] = "Timestamp"
    /\ uploaded_file.data["Date"] # uploaded_file.data["Timestamp"]
    /\ df.index.name = "Timestamp"
    /\ HasColumn(df, "Date")

\* C8: load_data never propagates an exception; an exception in the try block
\* gives (None, a message carrying its detail), and a clean run gives the
\* enriched table with a message carrying its row and column counts.
C8_LoadNeverRaises ==
    /\ pc # "crashed"
    /\ exception.kind = "None"
    /\ Loaded =>
        /\ LoadBody(uploaded_file).kind = "raise" =>
               /\ df.kind = "None"
               /\ message.kind = "error"
               /\ message.detail = LoadBody(uploaded_file).detail
        /\ LoadBody(uploaded_file).kind = "ok" =>
               /\ df.kind = "DataFrame"
               /\ \A c \in {"Hour", "Month", "DayOfWeek"} : HasColumn(df, c)
               /\ NRows(df) = uploaded_file.nrows
               /\ message.kind = "success"
               /\ message.rows = NRows(df)
               /\ message.columns = Len(df.columns)

\* A timestamp column that does not parse: the table is None and the message
\* carries the parser's words.
C8_Witness ==
    /\ Loaded
    /\ uploaded_file.readable
    /\ df.kind = "None"
    /\ message.kind = "error"
    /\ message.detail = "Unknown datetime string format"

\* C11: an upload with none of the six candidate columns loads as a table that
\* keeps the positional index and carries Hour, Month and DayOfWeek.
C11_NoTimestampKeepsPositionalIndex ==
    (Loaded /\ uploaded_file.readable /\ C7_Present = {}) =>
        /\ df.kind = "DataFrame"
        /\ df.index.kind = "RangeIndex"
        /\ \A c \in {"Hour", "Month", "DayOfWeek"} : HasColumn(df, c)

\* The day of the week of the civil date y-m-d by Sakamoto's rule, Monday = 0.
C15_MonthOffsets == <<0, 3, 2, 5, 0, 3, 5, 1, 4, 6, 2, 4>>
C15_Weekday(y, m, d) ==
    LET yy == IF m < 3 THEN y - 1 ELSE y
        sundayZero == (yy + yy \div 4 - yy \div 100 + yy \div 400
                       + C15_MonthOffsets[m] + d) % 7
    IN  (sundayZero + 6) % 7

C15_Cells == uploaded_file.data["Timestamp"]
C15_IsoTimestampUpload ==
    /\ uploaded_file.readable
    /\ "Timestamp" \in Range(uploaded_file.columns)
    /\ \A i \in 1..uploaded_file.nrows :
           /\ C15_Cells[i][2] \in 1..12
           /\ C15_Cells[i][3] \in 1..DaysInMonth(C15_Cells[i][1], C15_Cells[i][2])
           /\ C15_Cells[i][4] \in 0..23

\* C15: an upload with a Timestamp column of ISO datetimes loads with its rows in
\* the uploaded order, and row i carries the hour (0..23), the month (1..12) and
\* the day of the week (0..6, Monday = 0) of the upload's i-th timestamp.
C15_RowsKeepOrderAndCalendarFields ==
    (Loaded /\ C15_IsoTimestampUpload) =>
        /\ df.kind = "DataFrame"
        /\ df.index.name = "Timestamp"
        /\ Len(df.index.values) = uploaded_file.nrows
        /\ \A c \in DOMAIN uploaded_file.data \ {"Timestamp"} :
               df.data[c] = uploaded_file.data[c]
        /\ \A i \in 1..uploaded_file.nrows :
               /\ df.data["Hour"][i] = C15_Cells[i][4]
               /\ df.data["Month"][i] = C15_Cells[i][2]
               /\ df.data["DayOfWeek"][i] =
                      C15_Weekday(C15_Cells[i][1], C15_Cells[i][2], C15_Cells[i][3])
               /\ df.data["Hour"][i] \in 0..23
               /\ df.data["Month"][i] \in 1..12
               /\ df.data["DayOfWeek"][i] \in 0..6
               /\ i > 1 =>
                      (df.index.values[i - 1] < df.index.values[i]
                           <=> ParseTimestamp(C15_Cells[i - 1]) < ParseTimestamp(C15_Cells[i]))

\* Three uploaded rows whose timestamps are not in ascending order were loaded,
\* with different hours and days of the week among them.
C15_Witness ==
    /\ Loaded /\ C15_IsoTimestampUpload /\ df.kind = "DataFrame"
    /\ uploaded_file.nrows = 3
    /\ ParseTimestamp(C15_Cells[2]) > ParseTimestamp(C15_Cells[3])
    /\ df.index.values[2] > df.index.values[3]
    /\ df.data["Hour"][1] # df.data["Hour"][2]
    /\ df.data["DayOfWeek"][1] # df.data["DayOfWeek"][2]

\* ------------------------------------------------------- claims on main()
Downstream ==
    {"create_solar_score", "render_sidebar_filters", "render_solar_scorecard",
     "render_interactive_plots", "render_weather_impact", "render_data_overview"}

CalledAt(f) == {i \in 1..Len(calls) : calls[i] = f}

\* C9: after load_data returned None the run only shows the error and ends: no
\* scoring and no renderer is called; a scoring or rendering call is always
\* preceded, in the same run, by a load_data that returned a table.
C9_NullTableHaltsPipeline ==
    /\ df.kind = "None" =>
           /\ Range(calls) \cap Downstream = {}
           /\ pc \in {"loaded", "done"}
           /\ pc = "done" => "error: error" \in rendered
    /\ \A i \in 1..Len(calls) :
           calls[i] \in Downstream =>
               /\ df.kind = "DataFrame"
               /\ \E j \in CalledAt("load_data") : j < i

\* A run that ended on the error message after a failed load.
C9_Witness ==
    /\ pc = "done"
    /\ df.kind = "None"
    /\ calls = <<"render_file_uploader", "load_data">>
    /\ rendered = {"error: error", "Expected CSV Format"}

NoGHILoaded == df.kind = "DataFrame" /\ ~HasColumn(df, "GHI")

ScoreDependentSections ==
    ScorecardSections \cup
    {"insights: Solar Potential Assessment", "EXCELLENT POTENTIAL", "GOOD POTENTIAL",
     "MODERATE POTENTIAL", "Weather Impact Analysis", "chart: GHI vs weather",
     "info: Correlation"}

\* C10: with a loaded table that has no GHI column the run never raises, puts no
\* score-dependent section on the page (no scorecard, no potential assessment,
\* no weather impact), always has a next step until it is done, and is done only
\* after all five tabs.
C10_NoGHIOmitsScoreSections ==
    NoGHILoaded =>
        /\ pc # "crashed"
        /\ exception.kind = "None"
        /\ rendered \cap ScoreDependentSections = {}
        /\ pc \in {"scorecard", "tab2", "tab3", "tab4", "tab5", "done"} =>
               score_data.kind = "None"
        /\ pc # "done" => ENABLED Next
        /\ pc = "done" =>
               /\ calls = <<"render_file_uploader", "load_data", "render_sidebar_filters",
                            "create_solar_score", "render_solar_scorecard",
                            "render_interactive_plots", "render_weather_impact",
                            "render_data_overview">>
               /\ {"Interactive Analysis", "Data Overview",
                   "Business Insights & Recommendations",
                   "Technology Recommendations"} \subseteq rendered

\* A table with RH but no GHI went through all five tabs.
C10_Witness ==
    /\ pc = "done"
    /\ NoGHILoaded
    /\ HasColumn(df, "RH")
    /\ score_data.kind = "None"
    /\ "Technology Recommendations" \in rendered

=============================================================================
